---------------------------- MODULE Spec2Model ----------------------------
(* Model of magenta/models/accompaniment_rnn/accompaniment_rnn_config_flags.py:  *)
(* the module-level FLAGS, the melody_encoder_decoders table, the shared         *)
(* accompaniment_rnn_model.default_configs registry and config_from_flags().     *)
EXTENDS Integers, Sequences, FiniteSets, TLC

VARIABLES
    FLAGS,            \* tf.app.flags.FLAGS: the six flags of this module
    default_configs,  \* accompaniment_rnn_model.default_configs (shared, mutable)
    outcome,          \* what the last config_from_flags() call returned or raised
    before,           \* history: default_configs as it was when the last call began
    merged,           \* history: per config name, the overrides applied so far
    ncalls,           \* number of config_from_flags() calls made so far
    \* Two callers on two threads of one process (SpecThreads only):
    pc,               \* per thread, the line of config_from_flags() it is at
    inputs,           \* per thread, the flag values its caller supplies
    local_config,     \* per thread, the local variable `config` (a registry key)
    result,           \* per thread, what its call returned or raised
    applied,          \* history: the dicts merged into the entry, in order
    seen,             \* history: per thread, Len(applied) when it returned
    ownreads          \* history: per thread, every FLAGS read saw its own inputs

seqvars == <<outcome, before, merged, ncalls>>
thrvars == <<pc, inputs, local_config, result, applied, seen, ownreads>>
vars == <<FLAGS, default_configs, seqvars, thrvars>>

---------------------------------------------------------------------------
(* Bounds and input domains *)

MaxCalls == 2

\* Python's None, the default of every string flag.
None == "<None>"

\* An unset proto3 string field of GeneratorDetails reads as the empty string.
Unset == ""

\* Keys of the melody_encoder_decoders table and the classes they name.
melody_encoder_decoders ==
    [k \in {"onehot", "lookback", "key"} |->
        CASE k = "onehot"   -> "OneHotMelodyEncoderDecoder"
          [] k = "lookback" -> "LookbackMelodyEncoderDecoder"
          [] k = "key"      -> "KeyMelodyEncoderDecoder"]

ConfigNames == {"basic_rnn", "lookback_rnn"}

HKeys == {"batch_size", "learning_rate"}
HValues == {1, 2}

\* A Python dict of hyperparameters: a set of <<key, value>> items, one per key.
IsDict(items) == \A p \in items : \A q \in items : p[1] = q[1] => p = q
Dicts == {items \in SUBSET (HKeys \X HValues) : IsDict(items)}
Keys(d) == {p[1] : p \in d}

\* Values the --hparams string takes: the text of a dict literal, or text
\* that is not one.
HParamsStrings ==
    {[wellformed |-> TRUE, items |-> d] : d \in Dicts}
        \cup {[wellformed |-> FALSE, items |-> {}]}

ConfigValues == {None, "", "bogus_rnn"} \cup ConfigNames
MelodyEncoderDecoderValues ==
    {None, "", "bogus"} \cup DOMAIN melody_encoder_decoders
PredictaheadValues == {-1, 0, 4}
GeneratorIdValues == {None, "gen1"}
GeneratorDescriptionValues == {None, "desc1"}

FlagValues ==
    [config : ConfigValues,
     melody_encoder_decoder : MelodyEncoderDecoderValues,
     predictahead_steps : PredictaheadValues,
     generator_id : GeneratorIdValues,
     generator_description : GeneratorDescriptionValues,
     hparams : HParamsStrings]

\* The declared defaults of the flags.
DefaultFlags ==
    [config |-> None,
     melody_encoder_decoder |-> None,
     predictahead_steps |-> 0,
     generator_id |-> None,
     generator_description |-> None,
     hparams |-> [wellformed |-> TRUE, items |-> {}]]

---------------------------------------------------------------------------
(* Collaborators *)

\* GeneratorDetails(id=..., description=...); a None details object has
\* present = FALSE.
GeneratorDetails(id, description) ==
    [present |-> TRUE, id |-> id, description |-> description]
NoDetails == [present |-> FALSE, id |-> Unset, description |-> Unset]

\* MelodyPairEncoderDecoder(melody_encoder_decoder_class, predictahead_steps)
MelodyPairEncoderDecoder(class, steps) ==
    [melody |-> class, predictahead_steps |-> steps]

\* AccompanimentRnnConfig(details, encoder_decoder, hparams)
AccompanimentRnnConfig(details, encoder_decoder, hparams) ==
    [details |-> details, encoder_decoder |-> encoder_decoder,
     hparams |-> hparams]

\* magenta.common.HParams(): no hyperparameters.
HParams == {}

\* HParams.update(values): merge, replacing existing items with the same key.
HParamsUpdate(keyvals, values) ==
    {p \in keyvals : p[1] \notin Keys(values)} \cup values

\* HParams.parse(string): evaluate the literal, then update. Text that is not
\* a dict literal raises before anything is merged.
HParamsParse(keyvals, string) ==
    IF string.wellformed
    THEN [raised |-> FALSE, keyvals |-> HParamsUpdate(keyvals, string.items)]
    ELSE [raised |-> TRUE, keyvals |-> keyvals]

\* accompaniment_rnn_model.default_configs as the module is imported.
InitialDefaultConfigs ==
    [n \in ConfigNames |->
        IF n = "basic_rnn"
        THEN AccompanimentRnnConfig(
                 GeneratorDetails("basic_rnn", "Basic RNN"),
                 MelodyPairEncoderDecoder("OneHotMelodyEncoderDecoder", 0),
                 {<<"batch_size", 1>>, <<"learning_rate", 1>>})
        ELSE AccompanimentRnnConfig(
                 GeneratorDetails("lookback_rnn", "Lookback RNN"),
                 MelodyPairEncoderDecoder("LookbackMelodyEncoderDecoder", 0),
                 {<<"batch_size", 2>>})]

---------------------------------------------------------------------------
(* Outcomes of a call *)

NewObject == "<new>"
NoConfig == AccompanimentRnnConfig(NoDetails, MelodyPairEncoderDecoder(None, 0), {})
NoError == [type |-> None, flags |-> {}, valid |-> {}, got |-> None]

NotCalled ==
    [status |-> "none", ref |-> None, config |-> NoConfig, error |-> NoError]
Returned(ref, config) ==
    [status |-> "returned", ref |-> ref, config |-> config, error |-> NoError]
Raised(error) ==
    [status |-> "raised", ref |-> None, config |-> NoConfig, error |-> error]

\* AccompanimentRnnConfigFlagsException with its message: the flags the
\* message names, the valid keys it lists and the value it reports.
AccompanimentRnnConfigFlagsException(flags, valid, got) ==
    [type |-> "AccompanimentRnnConfigFlagsException",
     flags |-> flags, valid |-> valid, got |-> got]

\* Whatever HParams.parse raises on text that is not a dict literal.
HParamsParseError ==
    [type |-> "HParamsParseError", flags |-> {}, valid |-> {}, got |-> None]

\* What a string field of GeneratorDetails raises when it is assigned None.
TypeError ==
    [type |-> "TypeError", flags |-> {}, valid |-> {}, got |-> None]

---------------------------------------------------------------------------
(* config_from_flags *)

\* Mutant: the check rejects only the case where neither flag is supplied.
NoneCountNeitherOnly(f) ==
    IF f.melody_encoder_decoder = None /\ f.config = None THEN 2 ELSE 1

\* Mutant: the check tests truthiness, so an empty string counts as None.
NoneCountFalsy(f) ==
    (IF f.melody_encoder_decoder \in {None, ""} THEN 1 ELSE 0)
        + (IF f.config \in {None, ""} THEN 1 ELSE 0)

\* (FLAGS.melody_encoder_decoder, FLAGS.config).count(None)
NoneCount(f) ==
    (IF f.melody_encoder_decoder = None THEN 1 ELSE 0)
        + (IF f.config = None THEN 1 ELSE 0)

ExactlyOneError ==
    AccompanimentRnnConfigFlagsException(
        {"config", "melody_encoder_decoder"}, {}, None)

\* FLAGS.melody_encoder_decoder in melody_encoder_decoders
MelodyEncoderDecoderKnown(f) ==
    f.melody_encoder_decoder \in DOMAIN melody_encoder_decoders

MelodyEncoderDecoderError(f) ==
    AccompanimentRnnConfigFlagsException(
        {"melody_encoder_decoder"}, DOMAIN melody_encoder_decoders,
        f.melody_encoder_decoder)

\* Mutant: --config is looked up in the melody_encoder_decoders table.
ConfigKnownWrongTable(f, registry) ==
    f.config \in DOMAIN melody_encoder_decoders

\* FLAGS.config in accompaniment_rnn_model.default_configs
ConfigKnown(f, registry) ==
    f.config \in DOMAIN registry

\* Mutant: the message lists the keys of the melody_encoder_decoders table.
ConfigErrorWrongKeys(f, registry) ==
    AccompanimentRnnConfigFlagsException(
        {"config"}, DOMAIN melody_encoder_decoders, f.config)

ConfigError(f, registry) ==
    AccompanimentRnnConfigFlagsException(
        {"config"}, DOMAIN registry, f.config)

\* Mutant: a description supplied without an id still makes details.
GeneratorDetailsKeepDescription(f) ==
    IF f.generator_id # None \/ f.generator_description # None
    THEN GeneratorDetails(
             IF f.generator_id # None THEN f.generator_id ELSE Unset,
             IF f.generator_description # None
             THEN f.generator_description ELSE Unset)
    ELSE NoDetails

\* Generator details of a new config.
GeneratorDetailsFromFlags(f) ==
    IF f.generator_id # None
    THEN GeneratorDetails(
             f.generator_id,
             IF f.generator_description # None
             THEN f.generator_description ELSE Unset)
    ELSE NoDetails

EncoderDecoderFromFlags(f) ==
    MelodyPairEncoderDecoder(
        melody_encoder_decoders[f.melody_encoder_decoder],
        f.predictahead_steps)

\* Mutant: a new config starts from the hyperparameters of a default config.
NewHParamsFromDefault(registry) == registry["basic_rnn"].hparams

\* The hyperparameters a new config starts from, before --hparams is parsed.
NewHParams(registry) == HParams

\* The branch taken when --melody_encoder_decoder is supplied: the outcome.
\* The registry is read by nothing here and is not touched.
BranchA(f, registry) ==
    IF ~MelodyEncoderDecoderKnown(f)
    THEN Raised(MelodyEncoderDecoderError(f))
    ELSE LET generator_details == GeneratorDetailsFromFlags(f)
             encoder_decoder == EncoderDecoderFromFlags(f)
             parsed == HParamsParse(NewHParams(registry), f.hparams)
         IN  IF parsed.raised
             THEN Raised(HParamsParseError)
             ELSE Returned(NewObject,
                      AccompanimentRnnConfig(
                          generator_details, encoder_decoder, parsed.keyvals))

\* Mutant: the description is overwritten only inside the id's `if`.
DetailsOverwrittenNested(f, details) ==
    IF f.generator_id # None
    THEN LET d1 == [details EXCEPT !.id = f.generator_id]
         IN  IF f.generator_description # None
             THEN [d1 EXCEPT !.description = f.generator_description] ELSE d1
    ELSE details

\* config.details after the two conditional overwrites.
DetailsOverwritten(f, details) ==
    LET d1 == IF f.generator_id # None
              THEN [details EXCEPT !.id = f.generator_id] ELSE details
    IN  IF f.generator_description # None
        THEN [d1 EXCEPT !.description = f.generator_description] ELSE d1

\* Mutant: the details are overwritten before config.hparams.parse() runs.
RegistryDetailsWrittenFirst(f, registry) ==
    [registry EXCEPT ![f.config].details = DetailsOverwritten(f, @)]

\* The registry when config.hparams.parse() raises: parse is the first
\* statement that writes, so nothing has been written yet.
RegistryWhenParseRaises(f, registry) == registry

\* Mutant: `config` is a copy of the entry; the registry keeps its entry.
RegistryNotWritten(registry, name, updated) == registry

\* `config` is the registry's own entry, not a copy: what is written to it
\* is written to the registry.
RegistryWritten(registry, name, updated) ==
    [registry EXCEPT ![name] = updated]

\* The branch taken when --config is supplied: the outcome and the registry
\* it leaves.
BranchB(f, registry) ==
    IF ~ConfigKnown(f, registry)
    THEN [outcome |-> Raised(ConfigError(f, registry)), registry |-> registry]
    ELSE LET config == registry[f.config]
             parsed == HParamsParse(config.hparams, f.hparams)
         IN  IF parsed.raised
             THEN [outcome |-> Raised(HParamsParseError),
                   registry |-> RegistryWhenParseRaises(f, registry)]
             ELSE LET updated ==
                          [config EXCEPT
                              !.hparams = parsed.keyvals,
                              !.details = DetailsOverwritten(f, config.details)]
                      written == RegistryWritten(registry, f.config, updated)
                  IN  [outcome |-> Returned(f.config, updated),
                       registry |-> written]

ConfigFromFlags(f, registry) ==
    IF NoneCount(f) # 1
    THEN [outcome |-> Raised(ExactlyOneError), registry |-> registry]
    ELSE IF f.melody_encoder_decoder # None
         THEN [outcome |-> BranchA(f, registry), registry |-> registry]
         ELSE BranchB(f, registry)

---------------------------------------------------------------------------
(* History kept for the properties *)

\* base with every item of over laid on top of it.
OverlaidBy(base, over) ==
    {p \in base : \A q \in over : q[1] # p[1]} \cup over

\* base overlaid by each dict of the sequence dicts, first to last.
RECURSIVE OverlaidByAll(_, _)
OverlaidByAll(base, dicts) ==
    IF dicts = << >> THEN base
    ELSE OverlaidByAll(OverlaidBy(base, Head(dicts)), Tail(dicts))

MergedAfter(f, r) ==
    IF r.outcome.status = "returned" /\ r.outcome.ref \in ConfigNames
    THEN [merged EXCEPT ![f.config] = OverlaidBy(@, f.hparams.items)]
    ELSE merged

---------------------------------------------------------------------------
(* One caller at a time *)

Threads == {1, 2}

ThreadsIdle ==
    /\ pc = [t \in Threads |-> "idle"]
    /\ inputs = [t \in Threads |-> DefaultFlags]
    /\ local_config = [t \in Threads |-> None]
    /\ result = [t \in Threads |-> NotCalled]
    /\ applied = << >>
    /\ seen = [t \in Threads |-> 0]
    /\ ownreads = [t \in Threads |-> TRUE]

Init ==
    /\ FLAGS = DefaultFlags
    /\ default_configs = InitialDefaultConfigs
    /\ outcome = NotCalled
    /\ before = InitialDefaultConfigs
    /\ merged = [n \in ConfigNames |-> InitialDefaultConfigs[n].hparams]
    /\ ncalls = 0
    /\ ThreadsIdle

\* The flags are parsed to some f and config_from_flags() runs to its end.
config_from_flags ==
    /\ outcome.status = "none"
    /\ ncalls < MaxCalls
    /\ \E f \in FlagValues :
          LET r == ConfigFromFlags(f, default_configs)
          IN  /\ FLAGS' = f
              /\ outcome' = r.outcome
              /\ default_configs' = r.registry
              /\ merged' = MergedAfter(f, r)
    /\ before' = default_configs
    /\ ncalls' = ncalls + 1
    /\ UNCHANGED thrvars

\* The caller is done with the outcome and the flags go back to their
\* defaults, ready for the next call in the same process.
ResetFlags ==
    /\ outcome.status # "none"
    /\ FLAGS' = DefaultFlags
    /\ outcome' = NotCalled
    /\ before' = default_configs
    /\ UNCHANGED <<default_configs, merged, ncalls>>
    /\ UNCHANGED thrvars

Next ==
    \/ config_from_flags
    \/ ResetFlags

Spec == Init /\ [][Next]_vars

---------------------------------------------------------------------------
(* Two callers on two threads, each supplying --config=basic_rnn and its   *)
(* own --hparams, --generator_id and --generator_description, and each     *)
(* then running config_from_flags() a line at a time. FLAGS and            *)
(* default_configs are the process's: both threads read and write them,    *)
(* and nothing orders their steps.                                         *)

ThreadGeneratorId(t) == IF t = 1 THEN "gen1" ELSE "gen2"
ThreadGeneratorDescription(t) == IF t = 1 THEN "desc1" ELSE "desc2"

ThreadInputs(t) ==
    [config : {"basic_rnn"},
     melody_encoder_decoder : {None},
     predictahead_steps : {0},
     generator_id : {None, ThreadGeneratorId(t)},
     generator_description : {None, ThreadGeneratorDescription(t)},
     hparams : {s \in HParamsStrings : Cardinality(s.items) <= 1}]

InitThreads ==
    /\ FLAGS = DefaultFlags
    /\ default_configs = InitialDefaultConfigs
    /\ outcome = NotCalled
    /\ before = InitialDefaultConfigs
    /\ merged = [n \in ConfigNames |-> InitialDefaultConfigs[n].hparams]
    /\ ncalls = 0
    /\ pc = [t \in Threads |-> "start"]
    /\ inputs \in [Threads -> UNION {ThreadInputs(t) : t \in Threads}]
    /\ \A t \in Threads : inputs[t] \in ThreadInputs(t)
    /\ local_config = [t \in Threads |-> None]
    /\ result = [t \in Threads |-> NotCalled]
    /\ applied = << >>
    /\ seen = [t \in Threads |-> 0]
    /\ ownreads = [t \in Threads |-> TRUE]

\* Thread t reads FLAGS in this step.
ReadsFlags(t) ==
    ownreads' = [ownreads EXCEPT ![t] = @ /\ FLAGS = inputs[t]]

Raises(t, error) ==
    /\ pc' = [pc EXCEPT ![t] = "raised"]
    /\ result' = [result EXCEPT ![t] = Raised(error)]

\* The caller of thread t sets the flags, then calls.
SetFlags(t) ==
    /\ pc[t] = "start"
    /\ FLAGS' = inputs[t]
    /\ pc' = [pc EXCEPT ![t] = "line83"]
    /\ UNCHANGED <<default_configs, seqvars, inputs, local_config, result,
                   applied, seen, ownreads>>

\* The exactly-one check, the choice of branch, the lookup of --config
\* and the binding of `config` to the registry's entry.
Line83(t) ==
    /\ pc[t] = "line83"
    /\ ReadsFlags(t)
    /\ IF NoneCount(FLAGS) # 1
       THEN Raises(t, ExactlyOneError) /\ UNCHANGED local_config
       ELSE IF FLAGS.melody_encoder_decoder # None
       THEN LET r == BranchA(FLAGS, default_configs)
            IN  /\ pc' = [pc EXCEPT ![t] =
                            IF r.status = "returned" THEN "done" ELSE "raised"]
                /\ result' = [result EXCEPT ![t] = r]
                /\ UNCHANGED local_config
       ELSE IF ~ConfigKnown(FLAGS, default_configs)
       THEN Raises(t, ConfigError(FLAGS, default_configs))
                /\ UNCHANGED local_config
       ELSE /\ local_config' = [local_config EXCEPT ![t] = FLAGS.config]
            /\ pc' = [pc EXCEPT ![t] = "line114"]
            /\ UNCHANGED result
    /\ UNCHANGED <<FLAGS, default_configs, seqvars, inputs, applied, seen>>

\* config.hparams.parse(FLAGS.hparams)
Line114(t) ==
    /\ pc[t] = "line114"
    /\ ReadsFlags(t)
    /\ LET config == default_configs[local_config[t]]
           parsed == HParamsParse(config.hparams, FLAGS.hparams)
       IN  IF parsed.raised
           THEN /\ Raises(t, HParamsParseError)
                /\ UNCHANGED <<default_configs, applied>>
           ELSE /\ default_configs' =
                       RegistryWritten(default_configs, local_config[t],
                           [config EXCEPT !.hparams = parsed.keyvals])
                /\ applied' = Append(applied, FLAGS.hparams.items)
                /\ pc' = [pc EXCEPT ![t] = "line115"]
                /\ UNCHANGED result
    /\ UNCHANGED <<FLAGS, seqvars, inputs, local_config, seen>>

\* if FLAGS.generator_id is not None:
Line115(t) ==
    /\ pc[t] = "line115"
    /\ ReadsFlags(t)
    /\ pc' = [pc EXCEPT ![t] =
                 IF FLAGS.generator_id # None THEN "line116" ELSE "line117"]
    /\ UNCHANGED <<FLAGS, default_configs, seqvars, inputs, local_config,
                   result, applied, seen>>

\* config.details.id = FLAGS.generator_id; the flag is read again, and a
\* string field of GeneratorDetails refuses None with a TypeError.
Line116(t) ==
    /\ pc[t] = "line116"
    /\ ReadsFlags(t)
    /\ IF FLAGS.generator_id = None
       THEN Raises(t, TypeError) /\ UNCHANGED default_configs
       ELSE /\ default_configs' =
                   [default_configs EXCEPT
                       ![local_config[t]].details.id = FLAGS.generator_id]
            /\ pc' = [pc EXCEPT ![t] = "line117"]
            /\ UNCHANGED result
    /\ UNCHANGED <<FLAGS, seqvars, inputs, local_config, applied, seen>>

\* if FLAGS.generator_description is not None:
Line117(t) ==
    /\ pc[t] = "line117"
    /\ ReadsFlags(t)
    /\ pc' = [pc EXCEPT ![t] =
                 IF FLAGS.generator_description # None
                 THEN "line118" ELSE "line119"]
    /\ UNCHANGED <<FLAGS, default_configs, seqvars, inputs, local_config,
                   result, applied, seen>>

\* config.details.description = FLAGS.generator_description
Line118(t) ==
    /\ pc[t] = "line118"
    /\ ReadsFlags(t)
    /\ IF FLAGS.generator_description = None
       THEN Raises(t, TypeError) /\ UNCHANGED default_configs
       ELSE /\ default_configs' =
                   [default_configs EXCEPT
                       ![local_config[t]].details.description =
                           FLAGS.generator_description]
            /\ pc' = [pc EXCEPT ![t] = "line119"]
            /\ UNCHANGED result
    /\ UNCHANGED <<FLAGS, seqvars, inputs, local_config, applied, seen>>

\* Mutant: the caller receives a private config built from its own inputs.
ReturnedConfigPrivate(t, registry) ==
    BranchB(inputs[t], InitialDefaultConfigs).outcome.config

\* The config the caller of thread t receives: the entry `config` is bound
\* to, as that entry is at the return.
ReturnedConfig(t, registry) == registry[local_config[t]]

\* return config
Line119(t) ==
    /\ pc[t] = "line119"
    /\ result' = [result EXCEPT ![t] =
                     Returned(local_config[t],
                              ReturnedConfig(t, default_configs))]
    /\ seen' = [seen EXCEPT ![t] = Len(applied)]
    /\ pc' = [pc EXCEPT ![t] = "done"]
    /\ UNCHANGED <<FLAGS, default_configs, seqvars, inputs, local_config,
                   applied, ownreads>>

NextThreads ==
    \E t \in Threads :
        \/ SetFlags(t)
        \/ Line83(t)
        \/ Line114(t)
        \/ Line115(t)
        \/ Line116(t)
        \/ Line117(t)
        \/ Line118(t)
        \/ Line119(t)

SpecThreads == InitThreads /\ [][NextThreads]_vars

---------------------------------------------------------------------------
(* Properties *)

Called == outcome.status # "none"
\* A flag is supplied when it is not None.
OnlyConfig == FLAGS.config # None /\ FLAGS.melody_encoder_decoder = None
OnlyMelody == FLAGS.melody_encoder_decoder # None /\ FLAGS.config = None
BothOrNeither ==
    (FLAGS.config = None) = (FLAGS.melody_encoder_decoder = None)
BothFlags == {"config", "melody_encoder_decoder"}
RaisedExactlyOne ==
    /\ outcome.status = "raised"
    /\ outcome.error.type = "AccompanimentRnnConfigFlagsException"
    /\ outcome.error.flags = BothFlags
    /\ outcome.config = NoConfig
RaisedMiss(flag, valid, got) ==
    /\ outcome.status = "raised"
    /\ outcome.error.type = "AccompanimentRnnConfigFlagsException"
    /\ outcome.error.flags = {flag}
    /\ outcome.error.valid = valid
    /\ outcome.error.got = got
    /\ outcome.config = NoConfig

\* C1: when --config and --melody_encoder_decoder are both supplied or both
\* not supplied, the call raises the exception whose message names both
\* flags and returns no config, whatever the other flags and the registry
\* hold, and before any registry lookup (so never a lookup error).
C1_BothOrNeitherRaises ==
    (Called /\ BothOrNeither) => RaisedExactlyOne

C1_Witness ==
    /\ Called
    /\ FLAGS.config \in ConfigNames
    /\ FLAGS.melody_encoder_decoder = "bogus"
    /\ FLAGS.generator_id # None
    /\ ~FLAGS.hparams.wellformed
    /\ before # InitialDefaultConfigs
    /\ outcome.status = "raised"

\* C2 as stated: exactly one of the two flags supplied, and a key of its
\* registry, makes the call return a config whatever --hparams is.
C2_KnownNameReturns ==
    (/\ Called
     /\ \/ OnlyConfig /\ FLAGS.config \in DOMAIN before
        \/ OnlyMelody
             /\ FLAGS.melody_encoder_decoder \in DOMAIN melody_encoder_decoders)
        => (outcome.status = "returned" /\ outcome.config # NoConfig)

\* C2 amended: exactly one of the two flags supplied, a key of its registry,
\* and --hparams the text of a dict, makes the call return a config,
\* whatever the other flags are.
C2_KnownNameWellFormedReturns ==
    (/\ Called
     /\ FLAGS.hparams.wellformed
     /\ \/ OnlyConfig /\ FLAGS.config \in DOMAIN before
        \/ OnlyMelody
             /\ FLAGS.melody_encoder_decoder \in DOMAIN melody_encoder_decoders)
        => (outcome.status = "returned" /\ outcome.config # NoConfig)

C2_Witness ==
    /\ Called
    /\ OnlyConfig
    /\ FLAGS.config = "lookback_rnn"
    /\ FLAGS.hparams.wellformed
    /\ FLAGS.generator_description # None
    /\ FLAGS.predictahead_steps # 0
    /\ outcome.status = "returned"

\* C3: exactly one flag supplied and its value not a key of its registry:
\* the call raises the exception listing that registry's keys and the
\* offending value, and returns no config.
C3_UnknownNameRaises ==
    /\ (Called /\ OnlyMelody
          /\ FLAGS.melody_encoder_decoder \notin {"onehot", "lookback", "key"})
         => RaisedMiss("melody_encoder_decoder", {"onehot", "lookback", "key"},
                       FLAGS.melody_encoder_decoder)
    /\ (Called /\ OnlyConfig /\ FLAGS.config \notin DOMAIN before)
         => RaisedMiss("config", DOMAIN before, FLAGS.config)

C3_Witness ==
    /\ Called
    /\ OnlyConfig
    /\ FLAGS.config = "bogus_rnn"
    /\ outcome.status = "raised"
    /\ outcome.error.got = "bogus_rnn"

\* C4: whenever a call raises (the exactly-one check, a registry miss or a
\* --hparams parse failure), every entry of default_configs is what it was
\* before the call, and no config is returned.
C4_ErrorLeavesRegistry ==
    (Called /\ outcome.status = "raised")
        => (default_configs = before /\ outcome.config = NoConfig)

C4_Witness ==
    /\ Called
    /\ OnlyConfig
    /\ FLAGS.config \in ConfigNames
    /\ FLAGS.generator_id # None
    /\ FLAGS.generator_description # None
    /\ outcome.status = "raised"
    /\ outcome.error.type = "HParamsParseError"

\* C5: the hparams a --config call returns for name n are n's original
\* default hparams overlaid, in call order, by the --hparams of every
\* successful --config call on n so far, this one included; each call lays
\* its override on what the entry held and drops none of its other keys.
C5_OverridesAccumulate ==
    (Called /\ OnlyConfig /\ outcome.status = "returned")
        => LET n == FLAGS.config
               got == outcome.config.hparams
           IN  /\ got = merged[n]
               /\ got = OverlaidBy(before[n].hparams, FLAGS.hparams.items)
               /\ Keys(before[n].hparams) \subseteq Keys(got)
               /\ FLAGS.hparams.items \subseteq got

C5_Witness ==
    /\ Called
    /\ OnlyConfig
    /\ outcome.status = "returned"
    /\ ncalls >= 2
    /\ FLAGS.hparams.items = {<<"learning_rate", 2>>}
    /\ outcome.config.hparams =
           {<<"batch_size", 1>>, <<"learning_rate", 2>>}
    /\ FLAGS.config = "lookback_rnn"

\* C6: a successful --melody_encoder_decoder call returns a config whose
\* encoder_decoder pairs the class the table holds for that name with
\* exactly --predictahead_steps (negative values too), and whose details
\* are: with --generator_id, that id and the --generator_description if
\* supplied, else no description; without --generator_id, None, even when
\* a description is supplied.
C6_NewConfigFromFlags ==
    (Called /\ OnlyMelody /\ outcome.status = "returned")
        => /\ outcome.config.encoder_decoder =
                 [melody |-> melody_encoder_decoders[FLAGS.melody_encoder_decoder],
                  predictahead_steps |-> FLAGS.predictahead_steps]
           /\ outcome.config.details =
                 IF FLAGS.generator_id # None
                 THEN [present |-> TRUE,
                       id |-> FLAGS.generator_id,
                       description |->
                           IF FLAGS.generator_description # None
                           THEN FLAGS.generator_description ELSE Unset]
                 ELSE NoDetails

C6_Witness ==
    /\ Called
    /\ OnlyMelody
    /\ outcome.status = "returned"
    /\ FLAGS.predictahead_steps < 0
    /\ FLAGS.generator_id = None
    /\ FLAGS.generator_description # None
    /\ ~outcome.config.details.present

\* C7: a --melody_encoder_decoder call neither reads nor writes the
\* registry: after any earlier calls, the hparams it returns are exactly
\* its own --hparams laid on nothing, the config it returns is a new
\* object that is no registry entry, and default_configs is as it was.
C7_NewConfigIsIndependent ==
    (Called /\ OnlyMelody)
        => /\ default_configs = before
           /\ outcome.status = "returned"
                => /\ outcome.config.hparams =
                         OverlaidBy({}, FLAGS.hparams.items)
                   /\ outcome.ref \notin DOMAIN default_configs

C7_Witness ==
    /\ Called
    /\ OnlyMelody
    /\ outcome.status = "returned"
    /\ ncalls >= 2
    /\ before["basic_rnn"].hparams # InitialDefaultConfigs["basic_rnn"].hparams
    /\ FLAGS.hparams.items = {<<"batch_size", 2>>}

\* C8: a successful --config call on n returns details whose id is
\* --generator_id if supplied, else the id the entry held before the call,
\* and likewise the description, each independently of the other; the
\* entry's encoder_decoder is the original one whatever --predictahead_steps
\* is; the entry itself now holds what was returned (so later calls on n
\* start from it) and the other entries are untouched.
C8_DetailsOverwrittenInPlace ==
    (Called /\ OnlyConfig /\ outcome.status = "returned")
        => LET n == FLAGS.config
               old == before[n]
               new == outcome.config
           IN  /\ new.details.id =
                     IF FLAGS.generator_id # None
                     THEN FLAGS.generator_id ELSE old.details.id
               /\ new.details.description =
                     IF FLAGS.generator_description # None
                     THEN FLAGS.generator_description
                     ELSE old.details.description
               /\ new.encoder_decoder = InitialDefaultConfigs[n].encoder_decoder
               /\ outcome.ref = n
               /\ default_configs[n] = new
               /\ \A m \in DOMAIN default_configs \ {n} :
                     default_configs[m] = before[m]

C8_Witness ==
    /\ Called
    /\ OnlyConfig
    /\ outcome.status = "returned"
    /\ ncalls >= 2
    /\ FLAGS.generator_id = None
    /\ FLAGS.generator_description # None
    /\ FLAGS.predictahead_steps # 0
    /\ outcome.config.details.id = "gen1"
    /\ outcome.config.details.description = FLAGS.generator_description

\* C9 as stated: an empty string counts as not supplied, so an empty
\* --melody_encoder_decoder with a known --config returns that config, an
\* empty --config with a known --melody_encoder_decoder returns a new
\* config, and both empty raises the exactly-one exception.
C9_EmptyIsNotSupplied ==
    (Called /\ FLAGS.hparams.wellformed)
        => /\ (FLAGS.melody_encoder_decoder = ""
                 /\ FLAGS.config \in DOMAIN before)
                => (outcome.status = "returned" /\ outcome.ref = FLAGS.config)
           /\ (FLAGS.config = ""
                 /\ FLAGS.melody_encoder_decoder
                        \in DOMAIN melody_encoder_decoders)
                => (outcome.status = "returned" /\ outcome.ref = NewObject)
           /\ (FLAGS.config = "" /\ FLAGS.melody_encoder_decoder = "")
                => RaisedExactlyOne

\* C9 amended: only None counts as not supplied; an empty string is a
\* supplied value. An empty flag with the other flag supplied (a registry
\* key, or empty too) raises the exactly-one exception, and an empty flag
\* alone passes the check and raises its branch's registry-miss exception
\* with the empty string as the offending value.
C9_EmptyIsSupplied ==
    Called
        => /\ (FLAGS.melody_encoder_decoder = "" /\ FLAGS.config # None)
                => RaisedExactlyOne
           /\ (FLAGS.config = "" /\ FLAGS.melody_encoder_decoder # None)
                => RaisedExactlyOne
           /\ (FLAGS.melody_encoder_decoder = "" /\ FLAGS.config = None)
                => RaisedMiss("melody_encoder_decoder",
                              {"onehot", "lookback", "key"}, "")
           /\ (FLAGS.config = "" /\ FLAGS.melody_encoder_decoder = None)
                => RaisedMiss("config", DOMAIN before, "")

C9_Witness ==
    /\ Called
    /\ FLAGS.melody_encoder_decoder = ""
    /\ FLAGS.config \in ConfigNames
    /\ FLAGS.hparams.wellformed
    /\ outcome.status = "raised"
    /\ outcome.error.flags = BothFlags

\* What thread t's call returns when it runs alone from the initial registry.
Alone(t) == BranchB(inputs[t], InitialDefaultConfigs).outcome.config

\* C10: two --config calls on the same name on two threads share the
\* entry with no lock: the hparams a call returns are the entry's original
\* hparams overlaid by every override either thread merged before that
\* return, in merge order, the other caller's included. So there is an
\* interleaving (C10_Witness) in which a caller that read only its own
\* flags gets back a hyperparameter value only the other caller supplied,
\* which is not what its call returns when run alone.
C10_ReturnCarriesEveryMerge ==
    \A t \in Threads :
        pc[t] = "done"
            => result[t].config.hparams =
                   OverlaidByAll(InitialDefaultConfigs["basic_rnn"].hparams,
                                 SubSeq(applied, 1, seen[t]))

C10_Witness ==
    \E t \in Threads : \E u \in Threads \ {t} :
        /\ pc[t] = "done"
        /\ ownreads[t]
        /\ result[t].config # Alone(t)
        /\ \E item \in result[t].config.hparams :
              /\ item \in inputs[u].hparams.items
              /\ item \notin inputs[t].hparams.items
              /\ item \notin InitialDefaultConfigs["basic_rnn"].hparams

=============================================================================
